---- MODULE Spec2Model ----
(***************************************************************************)
(* Model of snapfeeder.py: one capture thread per camera (capture_loop),   *)
(* concurrent Flask request handlers (serve_snapshot), the shared CAMERAS  *)
(* dictionary they communicate through, the main thread (__main__ and the  *)
(* cleanup it registers with atexit) and the ffmpeg processes.             *)
(*                                                                         *)
(*   Spec, LiveSpec  the service once it is up, without a shutdown         *)
(*   SysSpec         the process from the start of __main__ to its end     *)
(*   ShutLiveSpec    the same without requests, with a fair main thread    *)
(*                                                                         *)
(* A step of a thread ends with one access to CAMERAS that another thread  *)
(* can affect or see; statements that touch only thread-local data (the    *)
(* registry lookup, the encoding itself, building the response) are folded *)
(* into the step of the access that follows them.                          *)
(*                                                                         *)
(* The line numbers are those of src/snapfeeder.py.  scripts/snapfeeder.py *)
(* has the same serve_snapshot; its capture_loop opens the RTSP source     *)
(* with av.open directly and has no step for subprocess.Popen.             *)
(***************************************************************************)
EXTENDS Integers, Sequences, FiniteSets, TLC

(***************************************************************************)
(* Bounds of the model.                                                    *)
(***************************************************************************)
MaxFrames == 2      \* frames decoded in a run, all cameras together
MaxOpens  == 2      \* ffmpeg processes spawned in a run, all cameras together
NReq      == 2      \* concurrent request handlers

(***************************************************************************)
(* Values.                                                                 *)
(***************************************************************************)
None == 0                               \* Python's None (and every falsy value)
Names == {"cam0", "cam1", "cam2"}       \* names a request may carry
Configured == {"cam0", "cam1"}          \* paths accepted by parse_mediamtx_config
Requests == 1..NReq
ExcKinds == {"AVError", "Exception"}    \* the two except clauses of capture_loop

\* Frames are numbered per camera in the order the decoder yields them.
Frames == 1..MaxFrames

\* JPEG_ENCODER.encode(frame.to_ndarray(...)): the bytes of a frame.  The
\* encoder is deterministic; distinct frames give distinct bytes, and no
\* encoding is empty.
JpegBase == 100
Encode(f) == JpegBase + f
FrameOf(j) == j - JpegBase
IsJpeg(j) == j > JpegBase

\* Truth value of a Python object: None and b'' are false.
Truthy(x) == x # None

VARIABLES
    CAMERAS,    \* name -> [source, container, process, latest_frame, latest_jpeg]
    wpc,        \* name -> position of the camera's capture thread
    req,        \* handler -> [pc, name, frame, status, body]
    obs,        \* handler -> its camera was down all through the request (history)
    hist,       \* what happened since the latest publish (history)
    main,       \* the main thread: [pc, i, proc]
    procs       \* name -> the ffmpeg processes spawned for the camera, in order

vars == <<CAMERAS, wpc, req, obs, hist, main, procs>>

----------------------------------------------------------------------------
(***************************************************************************)
(* parse_mediamtx_config: the registry entry of an accepted path.          *)
(***************************************************************************)
NewCamera(name) ==
    [source |-> <<"rtsp", name>>, container |-> None, process |-> None,
     latest_frame |-> None, latest_jpeg |-> None]

IdleRequest ==
    [pc |-> "idle", name |-> "cam0", frame |-> None, status |-> None,
     body |-> None]

\* History since the latest publish (of camera cam), kept while a run lasts:
\* the requests for cam that start one after the other, each after the one
\* before it was answered, the first after the publish was complete.
\*   stale   the frame the publish replaced, if the cache held its encoding
\*   open    the publish is complete and the run goes on
\*   counted the request of the run that is in flight (None: none is)
\*   n       the requests of the run answered so far
NoHist == [cam |-> "cam0", stale |-> None, open |-> FALSE, counted |-> None,
           n |-> 0]

\* The main thread.  pc is its position, i the place in Order of the camera
\* its loop is at (0 outside a loop), proc the local proc of cleanup.
MainAt(pc, i, proc) == [pc |-> pc, i |-> i, proc |-> proc]

\* app.run(host='0.0.0.0', port=PORT): the server accepts requests
Serving == MainAt("serving", 0, None)

\* The service once it is up: the registry is filled, every capture thread
\* has been started, the server accepts requests, no ffmpeg was spawned yet.
Init ==
    /\ CAMERAS = [n \in Configured |-> NewCamera(n)]
    /\ wpc = [n \in Configured |-> "connect"]
    /\ req = [r \in Requests |-> IdleRequest]
    /\ obs = [r \in Requests |-> FALSE]
    /\ hist = NoHist
    /\ main = Serving
    /\ procs = [n \in Configured |-> <<>>]

----------------------------------------------------------------------------
(***************************************************************************)
(* capture_loop(name): the capture thread of one camera.                   *)
(*   connect : about to run subprocess.Popen              (line 97)        *)
(*   open    : process recorded, about to run av.open     (line 99)        *)
(*   demux   : waiting for the next frame of the stream   (lines 102-103)  *)
(*   clear   : latest_frame assigned, latest_jpeg not yet (line 105)       *)
(*   backoff : inside time.sleep(5) of an except clause   (lines 107, 109) *)
(* Before threading.Thread(...).start() the thread is "unstarted"; it is a *)
(* daemon thread, which runs until the process ends ("stopped").           *)
(***************************************************************************)
Workers == Configured

\* Variant: only av.AVError is caught; any other exception ends the thread.
HandleOnlyAVError(c, kind) ==
    wpc' = [wpc EXCEPT ![c] = IF kind = "AVError" THEN "backoff" ELSE "dead"]

\* except av.AVError / except Exception: both clauses sleep and fall back
\* into the while loop.
HandleException(c, kind) ==
    wpc' = [wpc EXCEPT ![c] = "backoff"]

\* cam['latest_frame'] = frame
PublishFrame(c, f) ==
    CAMERAS' = [CAMERAS EXCEPT ![c].latest_frame = f]

\* Variant: the cache is one slot that all cameras share.
InvalidateEveryJpeg(c) ==
    CAMERAS' = [n \in DOMAIN CAMERAS |-> [CAMERAS[n] EXCEPT !.latest_jpeg = None]]

\* cam['latest_jpeg'] = None
InvalidateJpeg(c) ==
    CAMERAS' = [CAMERAS EXCEPT ![c].latest_jpeg = None]

\* History: a publish of camera c ends the window of requests served from
\* the previous frame and notes whether it left an encoding of it behind.
NotePublish(c) ==
    hist' = [NoHist EXCEPT
                !.cam = c,
                !.stale = IF /\ Truthy(CAMERAS[c].latest_frame)
                             /\ CAMERAS[c].latest_jpeg = Encode(CAMERAS[c].latest_frame)
                          THEN CAMERAS[c].latest_frame ELSE None]

\* History: the publish of camera c is complete.  A run starts unless a
\* request that read the new frame is already in flight.
NotePublished(c) ==
    hist' = IF /\ hist.cam = c
               /\ \A r \in Requests :
                     ~(/\ req[r].pc \notin {"idle", "done"}
                       /\ req[r].name = c
                       /\ req[r].frame = CAMERAS[c].latest_frame)
            THEN [hist EXCEPT !.open = TRUE]
            ELSE hist

\* History: camera c is connected again.
NoteConnected(c) ==
    obs' = [r \in Requests |-> obs[r] /\ req[r].name # c]

Sum(f) == f["cam0"] + f["cam1"]
FramesDecoded == Sum([c \in Configured |-> CAMERAS[c].latest_frame])
ProcessesSpawned == Sum([c \in Configured |-> CAMERAS[c].process])

\* proc = subprocess.Popen(cmd, ...); cam['process'] = proc
SpawnOk(c) ==
    /\ wpc[c] = "connect"
    /\ ProcessesSpawned < MaxOpens
    /\ CAMERAS' = [CAMERAS EXCEPT ![c].process = @ + 1]
    /\ procs' = [procs EXCEPT ![c] = Append(@, "run")]
    /\ wpc' = [wpc EXCEPT ![c] = "open"]
    /\ UNCHANGED <<req, obs, hist, main>>

\* subprocess.Popen raises (ffmpeg missing, no more processes, ...)
SpawnFail(c) ==
    /\ wpc[c] = "connect"
    /\ \E kind \in ExcKinds : HandleException(c, kind)
    /\ UNCHANGED <<CAMERAS, req, obs, hist, main, procs>>

\* Variant: a new connection starts from an empty entry.
OpenOkResetsFrame(c) ==
    /\ wpc[c] = "open"
    /\ CAMERAS' = [CAMERAS EXCEPT ![c].container = CAMERAS[c].process,
                                  ![c].latest_frame = None,
                                  ![c].latest_jpeg = None]
    /\ wpc' = [wpc EXCEPT ![c] = "demux"]
    /\ NoteConnected(c)
    /\ UNCHANGED <<req, hist, main, procs>>

\* container = av.open(proc.stdout, mode='r'); cam['container'] = container
OpenOk(c) ==
    /\ wpc[c] = "open"
    /\ CAMERAS' = [CAMERAS EXCEPT ![c].container = CAMERAS[c].process]
    /\ wpc' = [wpc EXCEPT ![c] = "demux"]
    /\ NoteConnected(c)
    /\ UNCHANGED <<req, hist, main, procs>>

\* av.open raises
OpenFail(c) ==
    /\ wpc[c] = "open"
    /\ \E kind \in ExcKinds : HandleException(c, kind)
    /\ UNCHANGED <<CAMERAS, req, obs, hist, main, procs>>

\* for packet in container.demux(video=0): for frame in packet.decode():
\*     cam['latest_frame'] = frame
NextFrame(c) ==
    /\ wpc[c] = "demux"
    /\ FramesDecoded < MaxFrames
    /\ PublishFrame(c, CAMERAS[c].latest_frame + 1)
    /\ wpc' = [wpc EXCEPT ![c] = "clear"]
    /\ NotePublish(c)
    /\ UNCHANGED <<req, obs, main, procs>>

\*     cam['latest_jpeg'] = None
ClearJpeg(c) ==
    /\ wpc[c] = "clear"
    /\ InvalidateJpeg(c)
    /\ wpc' = [wpc EXCEPT ![c] = "demux"]
    /\ NotePublished(c)
    /\ UNCHANGED <<req, obs, main, procs>>

\* demux / decode raises (stream broken, corrupt data, ...)
DemuxFail(c) ==
    /\ wpc[c] = "demux"
    /\ \E kind \in ExcKinds : HandleException(c, kind)
    /\ UNCHANGED <<CAMERAS, req, obs, hist, main, procs>>

\* the demux generator is exhausted (ffmpeg closed its stdout): the for
\* loop ends without an exception and while True starts over
EndOfStream(c) ==
    /\ wpc[c] = "demux"
    /\ wpc' = [wpc EXCEPT ![c] = "connect"]
    /\ UNCHANGED <<CAMERAS, req, obs, hist, main, procs>>

\* time.sleep(5) returns; while True starts over
Retry(c) ==
    /\ wpc[c] = "backoff"
    /\ wpc' = [wpc EXCEPT ![c] = "connect"]
    /\ UNCHANGED <<CAMERAS, req, obs, hist, main, procs>>

Worker(c) ==
    \/ SpawnOk(c) \/ SpawnFail(c) \/ OpenOk(c) \/ OpenFail(c)
    \/ NextFrame(c) \/ ClearJpeg(c) \/ DemuxFail(c) \/ EndOfStream(c)
    \/ Retry(c)

----------------------------------------------------------------------------
(***************************************************************************)
(* serve_snapshot(name): one request handler.  A step ends with an access *)
(* to CAMERAS that another thread can affect or see.                       *)
(*   check_jpeg  : frame read, about to test cam['latest_jpeg'] (line 124) *)
(*   send_cached : test passed, about to read it again          (line 125) *)
(*   encode      : test failed, encoding the frame it read      (line 128) *)
(*   done        : response sent; the handler takes the next request       *)
(***************************************************************************)
InFlight(r) == req[r].pc \notin {"idle", "done"}

Disconnected(c) == wpc[c] \in {"connect", "open", "backoff"}

\* cam = CAMERAS.get(name); if not cam: ...
Found(name) == name \in DOMAIN CAMERAS

\* History: a request for the camera of an open run starts.  It continues
\* the run when the run has no request in flight; otherwise it overlaps a
\* request of the run, which ends the run.
NoteStart(r, name) ==
    hist' = IF hist.open /\ hist.cam = name
            THEN IF hist.counted = None
                 THEN [hist EXCEPT !.counted = r]
                 ELSE NoHist
            ELSE hist

\* History: the answer to a request of the run.  The run ends with its
\* second answer, and with an answer that reports a failed encoding.
NoteAnswer(r, status, body, encoded) ==
    hist' = IF hist.open /\ hist.counted = r
            THEN IF hist.n = 0 /\ status # 500
                 THEN [hist EXCEPT !.counted = None, !.n = 1]
                 ELSE NoHist
            ELSE hist

\* return <body>, <status>: the locals of the handler die with it.
Respond(r, name, status, body, encoded) ==
    /\ req' = [req EXCEPT ![r] = [pc |-> "done", name |-> name, frame |-> None,
                                  status |-> status, body |-> body]]
    /\ NoteAnswer(r, status, body, encoded)

\* Variant: the registry creates the entry it is asked for (a defaultdict).
LookupCreates(name) ==
    CAMERAS' = [n \in DOMAIN CAMERAS \cup {name} |->
                    IF n \in DOMAIN CAMERAS THEN CAMERAS[n] ELSE NewCamera(n)]

\* cam = CAMERAS.get(name): the lookup never adds a key
Lookup(name) ==
    CAMERAS' = CAMERAS

\* Variant: the check is missing.
NotReadyNever(name) ==
    FALSE

\* Variant: a camera whose worker is not streaming counts as not ready.
NotReadyWhenDown(name) ==
    CAMERAS[name].latest_frame = None \/ Disconnected(name)

\* frame = cam.get('latest_frame'); if frame is None:
NotReady(name) ==
    CAMERAS[name].latest_frame = None

\* the server, inside app.run, accepts a request for /<name>.jpg:
\*   cam = CAMERAS.get(name); if not cam: return ..., 404
\*   frame = cam.get('latest_frame'); if frame is None: return ..., 503
Start(r, name) ==
    /\ main = Serving
    /\ ~InFlight(r)
    /\ Lookup(name)
    /\ IF ~Found(name)
       THEN /\ Respond(r, name, 404, None, FALSE)
            /\ obs' = [obs EXCEPT ![r] = FALSE]
       ELSE /\ obs' = [obs EXCEPT ![r] = Disconnected(name)]
            /\ IF NotReady(name)
               THEN /\ req' = [req EXCEPT ![r] =
                                [pc |-> "done", name |-> name, frame |-> None,
                                 status |-> 503, body |-> None]]
                    /\ hist' = hist
               ELSE /\ req' = [req EXCEPT ![r] =
                                [pc |-> "check_jpeg", name |-> name,
                                 frame |-> CAMERAS[name].latest_frame,
                                 status |-> None, body |-> None]]
                    /\ NoteStart(r, name)
    /\ UNCHANGED <<wpc, main, procs>>

\* Variant: the handler waits for another thread to fill the cache.
CheckJpegWaits(r) ==
    /\ req[r].pc = "check_jpeg"
    /\ Truthy(CAMERAS[req[r].name].latest_jpeg)
    /\ req' = [req EXCEPT ![r].pc = "send_cached"]
    /\ UNCHANGED <<CAMERAS, wpc, obs, hist, main, procs>>

\* if cam['latest_jpeg']:
CheckJpeg(r) ==
    /\ req[r].pc = "check_jpeg"
    /\ req' = [req EXCEPT ![r].pc = IF Truthy(CAMERAS[req[r].name].latest_jpeg)
                                     THEN "send_cached" ELSE "encode"]
    /\ UNCHANGED <<CAMERAS, wpc, obs, hist, main, procs>>

\* return send_file(BytesIO(cam['latest_jpeg']), ...): the second read of
\* the cache; BytesIO(None) is an empty buffer
SendCached(r) ==
    /\ req[r].pc = "send_cached"
    /\ Respond(r, req[r].name, 200, CAMERAS[req[r].name].latest_jpeg, FALSE)
    /\ UNCHANGED <<CAMERAS, wpc, obs, main, procs>>

\* Variant: the handler also drops the frame it has encoded.
StoreJpegDropFrame(c, jpeg_buf) ==
    CAMERAS' = [CAMERAS EXCEPT ![c].latest_jpeg = jpeg_buf,
                               ![c].latest_frame = None]

\* cam['latest_jpeg'] = jpeg_buf
StoreJpeg(c, jpeg_buf) ==
    CAMERAS' = [CAMERAS EXCEPT ![c].latest_jpeg = jpeg_buf]

\* Variant: the handler answers with its encoding and does not store it.
EncodeOkNoStore(r) ==
    /\ req[r].pc = "encode"
    /\ Respond(r, req[r].name, 200, Encode(req[r].frame), TRUE)
    /\ UNCHANGED <<CAMERAS, wpc, obs, main, procs>>

\* jpeg_buf = JPEG_ENCODER.encode(frame.to_ndarray(format='bgr24'), ...)
\* cam['latest_jpeg'] = jpeg_buf
\* return send_file(BytesIO(jpeg_buf), ...)
EncodeOk(r) ==
    /\ req[r].pc = "encode"
    /\ LET jpeg_buf == Encode(req[r].frame)
       IN  /\ StoreJpeg(req[r].name, jpeg_buf)
           /\ Respond(r, req[r].name, 200, jpeg_buf, TRUE)
    /\ UNCHANGED <<wpc, obs, main, procs>>

\* Variant: the handler drops the cache entry when encoding fails.
EncodeFailDropsCache(r) ==
    /\ req[r].pc = "encode"
    /\ StoreJpeg(req[r].name, None)
    /\ Respond(r, req[r].name, 500, None, TRUE)
    /\ UNCHANGED <<wpc, obs, main, procs>>

\* the conversion or the encoder raises: return f"Encoding error: {e}", 500
EncodeFail(r) ==
    /\ req[r].pc = "encode"
    /\ Respond(r, req[r].name, 500, None, TRUE)
    /\ UNCHANGED <<CAMERAS, wpc, obs, main, procs>>

\* the steps of a request that has started
Progress(r) ==
    CheckJpeg(r) \/ SendCached(r) \/ EncodeOk(r) \/ EncodeFail(r)

Handler(r) ==
    \/ \E name \in Names : Start(r, name)
    \/ Progress(r)

----------------------------------------------------------------------------
(***************************************************************************)
(* The ffmpeg processes.  procs[c][k] is the state of the k-th process     *)
(* spawned for camera c (cam['process'] = k names it):                     *)
(*   run  : running, no signal sent                                        *)
(*   term : running, SIGTERM was sent to it                                *)
(*   exit : it ended by itself or after SIGTERM                            *)
(*   kill : it was ended by SIGKILL                                        *)
(***************************************************************************)
ProcStates == {"run", "term", "exit", "kill"}

Alive(c, k) == k \in DOMAIN procs[c] /\ procs[c][k] \in {"run", "term"}

AliveProcs(c) == {k \in 1..Len(procs[c]) : Alive(c, k)}

\* An ffmpeg process ends: its input is over, it fails, or it honours a
\* SIGTERM.  Nothing makes it end: it may run on, whatever it was sent.
ProcExit(c, k) ==
    /\ k \in AliveProcs(c)
    /\ procs' = [procs EXCEPT ![c][k] = "exit"]
    /\ UNCHANGED <<CAMERAS, wpc, req, obs, hist, main>>

----------------------------------------------------------------------------
(***************************************************************************)
(* __main__ and cleanup: the main thread.                                  *)
(*   parse    : about to run parse_mediamtx_config         (line 153)      *)
(*   failed   : the process ended in sys.exit(1)           (lines 156, 160)*)
(*   threads  : starting the thread of camera Order[i]     (lines 162-164) *)
(*   sleep    : cleanup registered, inside time.sleep(1)   (lines 166-167) *)
(*   serving  : inside app.run                             (line 168)      *)
(*   cleanup  : cleanup is at camera Order[i], about to read its process   *)
(*                                                         (lines 141-143) *)
(*   sigterm  : about to send SIGTERM to proc              (line 144)      *)
(*   wait     : inside proc.wait(timeout=2)                (line 146)      *)
(*   kill     : TimeoutExpired caught, about to kill proc  (line 148)      *)
(*   finished : cleanup has returned                                       *)
(*   exited   : the process has ended                                      *)
(***************************************************************************)
\* for name in CAMERAS / for cam in CAMERAS.values(): a dict is visited in
\* the order its keys were inserted
Order == <<"cam0", "cam1">>

\* what parse_mediamtx_config meets: a file it cannot read or parse, a file
\* with an entry that makes the loop raise after it accepted a path, a file
\* without any accepted path, a file with the paths of Configured
ConfigOutcomes == {"unreadable", "broken", "empty", "cameras"}

\* CAMERAS when parse_mediamtx_config returns or raises
Parsed(outcome) ==
    CASE outcome = "cameras" -> [n \in Configured |-> NewCamera(n)]
      [] outcome = "broken"  -> [n \in {Order[1]} |-> NewCamera(n)]
      [] OTHER               -> [n \in {} |-> NewCamera(n)]

NoCameras == [n \in {} |-> NewCamera(n)]

\* The process at the start of __main__: CAMERAS = {}, no thread started.
SysInit ==
    /\ CAMERAS = NoCameras
    /\ wpc = [n \in Configured |-> "unstarted"]
    /\ req = [r \in Requests |-> IdleRequest]
    /\ obs = [r \in Requests |-> FALSE]
    /\ hist = NoHist
    /\ main = MainAt("parse", 0, None)
    /\ procs = [n \in Configured |-> <<>>]

\* Variant: an empty camera set is accepted and the service comes up.
AfterConfigAlwaysUp(outcome) ==
    IF outcome \in {"unreadable", "broken"} THEN MainAt("failed", 0, None)
    ELSE MainAt("threads", 1, None)

\* except Exception: ... sys.exit(1)  /  if not CAMERAS: ... sys.exit(1)
\* (snapfeeder.py does not import sys: there the statement raises NameError,
\* which ends the process with exit status 1 as well)
AfterConfig(outcome) ==
    IF outcome = "cameras" THEN MainAt("threads", 1, None)
    ELSE MainAt("failed", 0, None)

\* try: parse_mediamtx_config() ... ; if not CAMERAS: ...
ParseConfig(outcome) ==
    /\ main.pc = "parse"
    /\ CAMERAS' = Parsed(outcome)
    /\ main' = AfterConfig(outcome)
    /\ UNCHANGED <<wpc, req, obs, hist, procs>>

\* t = threading.Thread(target=capture_loop, args=(name,), daemon=True)
\* t.start(); after the last one: atexit.register(cleanup)
StartThread ==
    /\ main.pc = "threads"
    /\ main.i \in DOMAIN Order /\ Order[main.i] \in DOMAIN CAMERAS
    /\ wpc' = [wpc EXCEPT ![Order[main.i]] = "connect"]
    /\ main' = IF main.i < Len(Order)
               THEN MainAt("threads", main.i + 1, None)
               ELSE MainAt("sleep", 0, None)
    /\ UNCHANGED <<CAMERAS, req, obs, hist, procs>>

\* time.sleep(1) returns; app.run(...)
SleepDone ==
    /\ main.pc = "sleep"
    /\ main' = Serving
    /\ UNCHANGED <<CAMERAS, wpc, req, obs, hist, procs>>

\* The main thread is interrupted (Ctrl-C) in time.sleep or in app.run: the
\* interpreter starts to exit and calls cleanup, registered with atexit.
Shutdown ==
    /\ main.pc \in {"sleep", "serving"}
    /\ main' = MainAt("cleanup", 1, None)
    /\ UNCHANGED <<CAMERAS, wpc, req, obs, hist, procs>>

\* the for loop of cleanup moves on from the camera at place i
NextCamera(i) ==
    IF i < Len(Order) THEN MainAt("cleanup", i + 1, None)
    ELSE MainAt("finished", 0, None)

\* for cam in CAMERAS.values(): proc = cam.get('process'); if proc:
CleanupRead ==
    /\ main.pc = "cleanup"
    /\ LET proc == CAMERAS[Order[main.i]].process
       IN  main' = IF Truthy(proc) THEN MainAt("sigterm", main.i, proc)
                   ELSE NextCamera(main.i)
    /\ UNCHANGED <<CAMERAS, wpc, req, obs, hist, procs>>

\* the camera cleanup is at
CleanupCam == Order[main.i]

\* Popen.send_signal / Popen.kill: a process that has ended is sent nothing
Signalled(c, k, state) ==
    procs' = IF Alive(c, k) THEN [procs EXCEPT ![c][k] = state] ELSE procs

\* proc.send_signal(signal.SIGTERM)
Sigterm ==
    /\ main.pc = "sigterm"
    /\ Signalled(CleanupCam, main.proc, "term")
    /\ main' = MainAt("wait", main.i, main.proc)
    /\ UNCHANGED <<CAMERAS, wpc, req, obs, hist>>

\* proc.wait(timeout=2) returns: the process has ended
WaitReturns ==
    /\ main.pc = "wait"
    /\ ~Alive(CleanupCam, main.proc)
    /\ main' = NextCamera(main.i)
    /\ UNCHANGED <<CAMERAS, wpc, req, obs, hist, procs>>

\* Variant: the kill follows the wait however the wait ended (finally:).
WaitThenKill ==
    /\ main.pc = "wait"
    /\ main' = MainAt("kill", main.i, main.proc)
    /\ UNCHANGED <<CAMERAS, wpc, req, obs, hist, procs>>

\* Variant: proc.wait() without a timeout, which never raises TimeoutExpired.
WaitWithoutTimeout ==
    /\ main.pc = "wait"
    /\ FALSE
    /\ UNCHANGED vars

\* proc.wait(timeout=2) raises subprocess.TimeoutExpired: two seconds have
\* passed and the process runs
WaitTimeout ==
    /\ main.pc = "wait"
    /\ Alive(CleanupCam, main.proc)
    /\ main' = MainAt("kill", main.i, main.proc)
    /\ UNCHANGED <<CAMERAS, wpc, req, obs, hist, procs>>

\* except subprocess.TimeoutExpired: proc.kill()
Kill ==
    /\ main.pc = "kill"
    /\ Signalled(CleanupCam, main.proc, "kill")
    /\ main' = NextCamera(main.i)
    /\ UNCHANGED <<CAMERAS, wpc, req, obs, hist>>

\* The interpreter exits once cleanup has returned: the daemon threads end
\* with the process, and a request in flight is never answered.
Exit ==
    /\ main.pc = "finished"
    /\ main' = MainAt("exited", 0, None)
    /\ wpc' = [c \in Workers |-> "stopped"]
    /\ req' = [r \in Requests |-> IF InFlight(r) THEN IdleRequest ELSE req[r]]
    /\ UNCHANGED <<CAMERAS, obs, hist, procs>>

cleanup ==
    CleanupRead \/ Sigterm \/ WaitReturns \/ WaitTimeout \/ Kill

Main ==
    \/ \E outcome \in ConfigOutcomes : ParseConfig(outcome)
    \/ StartThread \/ SleepDone \/ Shutdown
    \/ cleanup
    \/ Exit

----------------------------------------------------------------------------
Next ==
    \/ \E c \in Workers : Worker(c)
    \/ \E r \in Requests : Handler(r)

Spec == Init /\ [][Next]_vars

\* The service with one request handler (the others stay idle), for the
\* properties of progress.  Every thread that can run is scheduled: a
\* capture thread takes its next step (time.sleep returns, Popen / av.open /
\* demux return or raise), and a request that has started runs to its
\* answer.  Nothing forces a client to send a request, nor a step to succeed.
LiveNext ==
    \/ \E c \in Workers : Worker(c)
    \/ Handler(1)

Fairness ==
    /\ \A c \in Workers : WF_vars(Worker(c))
    /\ WF_vars(Progress(1))

LiveSpec == Init /\ [][LiveNext]_vars /\ Fairness

\* The whole life of the process, from the start of __main__ to its end,
\* with the ffmpeg processes it spawns and one request handler.
SysNext ==
    \/ Main
    \/ \E c \in Workers : \E k \in 1..MaxOpens : ProcExit(c, k)
    \/ \E c \in Workers : Worker(c)
    \/ Handler(1)

SysSpec == SysInit /\ [][SysNext]_vars

\* The main thread is scheduled whenever it can run: proc.wait(timeout=2)
\* ends, the signals are sent, and the interpreter exits after cleanup.
\* Nothing forces the interrupt that starts the shutdown.
MainFairness ==
    /\ WF_vars(cleanup)
    /\ WF_vars(Exit)

\* The same while no client sends a request, for the properties of progress.
ShutNext ==
    \/ Main
    \/ \E c \in Workers : \E k \in 1..MaxOpens : ProcExit(c, k)
    \/ \E c \in Workers : Worker(c)

ShutLiveSpec == SysInit /\ [][ShutNext]_vars /\ MainFairness

TypeOK ==
    /\ DOMAIN CAMERAS = Configured
    /\ \A c \in Configured :
          /\ CAMERAS[c].latest_frame \in {None} \cup Frames
          /\ CAMERAS[c].latest_jpeg \in {None} \cup {Encode(f) : f \in Frames}
          /\ CAMERAS[c].process \in 0..MaxOpens
          /\ CAMERAS[c].container \in 0..MaxOpens
          /\ wpc[c] \in {"connect", "open", "demux", "clear", "backoff"}
          /\ \A k \in DOMAIN procs[c] : procs[c][k] \in ProcStates
          /\ Len(procs[c]) = CAMERAS[c].process
    /\ \A r \in Requests :
          /\ req[r].pc \in {"idle", "check_jpeg", "send_cached", "encode", "done"}
          /\ req[r].status \in {None, 200, 404, 500, 503}

----------------------------------------------------------------------------
(***************************************************************************)
(* Vocabulary of the properties.                                           *)
(***************************************************************************)
\* this step sends the answer of request r
Answers(r) == InFlight(r) /\ req'[r].pc = "done"

\* this step sends the answer of the request of the run that is in flight
AnswersRun(r) == Answers(r) /\ hist.open /\ hist.counted = r

Answered(r) == req[r].pc = "done"

\* the Python process has not ended
ProcessUp == main.pc \notin {"failed", "exited"}

\* the shutdown has begun and the process has not ended
ShuttingDown == main.pc \in {"cleanup", "sigterm", "wait", "kill", "finished"}

\* the capture thread of camera c is inside the demux loop
Streaming(c) == wpc[c] \in {"demux", "clear"}

----------------------------------------------------------------------------
\* C1: once a publish has replaced a frame whose encoding was cached, the
\* next request that starts after the publish answers 200 only with an
\* encoding of the new frame, never with the bytes cached for the old one.
C1_NextRequestIsFresh ==
    [][\A r \in Requests :
          (AnswersRun(r) /\ hist.n = 0 /\ hist.stale # None /\ req'[r].status = 200)
          => /\ req'[r].body # Encode(hist.stale)
             /\ req'[r].body = Encode(CAMERAS[hist.cam].latest_frame)]_vars

\* C2: a request that answers 200 never returns the encoding of a frame
\* older than the frame it read as latest_frame.
C2_NeverOlderThanRead ==
    [][\A r \in Requests :
          (Answers(r) /\ req'[r].status = 200 /\ IsJpeg(req'[r].body))
          => FrameOf(req'[r].body) >= req[r].frame]_vars

\* C3: after a publish, and with no publish in between, two consecutive
\* requests for the camera whose encoding does not fail both answer 200
\* with the encoding of the published frame; the first encodes it and the
\* second is served from the cache.
C3_CacheHit ==
    [][\A r \in Requests :
          (AnswersRun(r) /\ req'[r].status # 500)
          => /\ req'[r].status = 200
             /\ req'[r].body = Encode(CAMERAS[hist.cam].latest_frame)
             /\ hist.n = 0 => req[r].pc = "encode"
             /\ hist.n = 1 => req[r].pc = "send_cached"]_vars

----------------------------------------------------------------------------
\* C4: while a configured camera has published no frame, every request for
\* it is answered 503 at once: none is in flight towards the encoder, and
\* the camera's cache stays empty.
C4_NotReadyBeforeFirstFrame ==
    \A c \in Configured :
        CAMERAS[c].latest_frame = None
        => /\ CAMERAS[c].latest_jpeg = None
           /\ \A r \in Requests :
                 (req[r].pc # "idle" /\ req[r].name = c)
                 => (Answered(r) /\ req[r].status = 503 /\ req[r].body = None)

\* a request was answered 503 for a camera whose worker is backing off
\* without ever having published
C4_Witness ==
    \E r \in Requests : \E c \in Configured :
        /\ Answered(r) /\ req[r].name = c /\ req[r].status = 503
        /\ CAMERAS[c].latest_frame = None
        /\ wpc[c] = "backoff"

----------------------------------------------------------------------------
\* C5: a request for a name that is no key of the registry is answered 404
\* in the step it arrives in, and that step changes neither the registry
\* nor any camera's state nor any worker.
C5_UnknownNameNotFound ==
    /\ [](\A r \in Requests :
            (req[r].pc # "idle" /\ req[r].name \notin DOMAIN CAMERAS)
            => (Answered(r) /\ req[r].status = 404 /\ req[r].body = None))
    /\ [][\A r \in Requests :
            (req'[r] # req[r] /\ req'[r].name \notin DOMAIN CAMERAS)
            => (CAMERAS' = CAMERAS /\ wpc' = wpc)]_vars
    /\ [](DOMAIN CAMERAS = Configured)

\* a request for the unconfigured cam2 was answered 404 while a camera had
\* a frame and a cached encoding
C5_Witness ==
    \E r \in Requests :
        /\ Answered(r) /\ req[r].name = "cam2" /\ req[r].status = 404
        /\ \E c \in Configured : Truthy(CAMERAS[c].latest_jpeg)

----------------------------------------------------------------------------
\* C6: the step in which a request answers 500 leaves every camera's entry
\* (cached JPEG, latest frame, process, container), every worker and every
\* other request as they were, and so do the earlier steps of that request:
\* a handler writes CAMERAS only in the step that answers 200 after an encode.
C6_EncodeFailureLeavesState ==
    [][\A r \in Requests :
          /\ (Answers(r) /\ req'[r].status = 500)
             => /\ req[r].pc = "encode"
                /\ CAMERAS' = CAMERAS
                /\ wpc' = wpc
                /\ \A q \in Requests \ {r} : req'[q] = req[q]
          /\ (req'[r] # req[r] /\ CAMERAS' # CAMERAS)
             => /\ req[r].pc = "encode"
                /\ req'[r].status = 200]_vars

\* a request was answered 500 while the camera's cache holds the encoding
\* that another request stored
C6_Witness ==
    \E r \in Requests :
        /\ Answered(r) /\ req[r].status = 500
        /\ Truthy(CAMERAS[req[r].name].latest_jpeg)

----------------------------------------------------------------------------
\* C7 as stated: a request that ran entirely while its camera was
\* disconnected is answered 503.
C7_DisconnectedAlways503 ==
    \A r \in Requests :
        (Answered(r) /\ obs[r]) => req[r].status = 503

\* C7 as amended: a request that ran entirely while its camera was
\* disconnected is answered 503 exactly when the camera has never published
\* a frame, and otherwise 200 or 500 from the last frame published; a
\* request that has started can always take its next step, and a handler
\* without a request can always take one, whatever the workers are doing.
C7_DisconnectedServesLastFrame ==
    \A r \in Requests :
        /\ (Answered(r) /\ obs[r])
           => /\ req[r].status = 503 <=> CAMERAS[req[r].name].latest_frame = None
              /\ req[r].status \in {200, 500, 503}
        /\ InFlight(r) => ENABLED Progress(r)
        /\ ~InFlight(r) => \A name \in Names : ENABLED Start(r, name)

\* a request that ran entirely while its camera was backing off after a
\* stream failure was answered 200, while a request for the other camera,
\* which is streaming, was answered 200 as well
C7_Witness ==
    \E r, q \in Requests :
        /\ Answered(r) /\ obs[r] /\ req[r].status = 200
        /\ wpc[req[r].name] = "backoff"
        /\ Answered(q) /\ req[q].name # req[r].name /\ req[q].status = 200
        /\ req[q].name \in Configured /\ wpc[req[q].name] = "demux"

----------------------------------------------------------------------------
\* C8: a capture worker can always take a step, whatever exception it has
\* met; from the sleep that follows an exception it always comes back to
\* the connection attempt, and it makes that attempt.
C8_WorkerNeverStops ==
    \A c \in Workers :
        /\ [](ENABLED Worker(c))
        /\ (wpc[c] = "backoff") ~> (wpc[c] = "connect")
        /\ (wpc[c] = "connect") ~> (wpc[c] \in {"open", "backoff"})

\* a worker spawned its second process although av.open had failed on the
\* first one: it has been through the except clause and came back
C8_Witness ==
    \E c \in Workers :
        /\ wpc[c] = "open"
        /\ CAMERAS[c].process = 2
        /\ CAMERAS[c].container = None

----------------------------------------------------------------------------
\* C9: a request that finds a frame is eventually answered, with 200 unless
\* its encoding fails (500); 503 is answered only for a camera that has no
\* frame, and always for a camera that never published one; a name that is
\* not configured is always answered 404.
C9_EventuallyServed ==
    /\ \A r \in Requests :
          InFlight(r) ~> (Answered(r) /\ req[r].status \in {200, 500})
    /\ [][\A r \in Requests :
            (req'[r] # req[r] /\ req'[r].status = 503)
            => CAMERAS[req'[r].name].latest_frame = None]_vars
    /\ [](\A r \in Requests :
            (Answered(r) /\ req[r].name \in Configured
                /\ CAMERAS[req[r].name].latest_frame = None)
            => req[r].status = 503)
    /\ [](\A r \in Requests :
            (Answered(r) /\ req[r].name \notin Configured) => req[r].status = 404)

\* cam0 delivered a frame on its second connection and a request for it
\* was answered 200 with the encoding of that frame, while cam1 never
\* connected
C9_Witness ==
    \E r \in Requests :
        /\ Answered(r) /\ req[r].name = "cam0" /\ req[r].status = 200
        /\ req[r].body = Encode(CAMERAS["cam0"].latest_frame)
        /\ CAMERAS["cam0"].container = 2
        /\ CAMERAS["cam1"].process = None

----------------------------------------------------------------------------
\* C10: a step of camera a's capture worker leaves the entry and the worker
\* of every other camera, and every request, as they were; a step of a
\* request leaves the entry of every camera but its own as it was; and no
\* worker is ever stopped, whatever happened to the other's pipeline.
C10_CamerasAreIsolated ==
    /\ [][\A a \in Workers :
            wpc'[a] # wpc[a]
            => /\ \A b \in Workers \ {a} :
                     CAMERAS'[b] = CAMERAS[b] /\ wpc'[b] = wpc[b]
               /\ req' = req]_vars
    /\ [][\A r \in Requests :
            req'[r] # req[r]
            => /\ \A b \in Workers \ {req'[r].name} : CAMERAS'[b] = CAMERAS[b]
               /\ wpc' = wpc]_vars
    /\ [](\A b \in Workers : ENABLED Worker(b))

\* camera a is backing off after its stream broke while camera b streams,
\* holds a frame and a cached encoding, and a request for b was answered 200
C10_Witness ==
    \E a, b \in Workers : \E r \in Requests :
        /\ a # b
        /\ wpc[a] = "backoff" /\ CAMERAS[a].container # None
        /\ wpc[b] = "demux" /\ Truthy(CAMERAS[b].latest_jpeg)
        /\ Answered(r) /\ req[r].name = b /\ req[r].status = 200

----------------------------------------------------------------------------
\* C11: at the step in which cleanup finishes, no ffmpeg process that was ever spawned
\* for any camera is still alive: neither one that a reconnect replaced, nor
\* one that a capture thread spawned while or after cleanup visited its
\* camera.
C11_NoPipelineOutlivesCleanup ==
    [][(main.pc # "finished" /\ main'.pc = "finished")
       => \A c \in Workers : \A k \in DOMAIN procs'[c] :
             procs'[c][k] \notin {"run", "term"}]_vars

----------------------------------------------------------------------------
\* C12: cleanup, once started, returns and the process ends, whatever the
\* ffmpeg processes do: cleanup can always take its next step, and from the
\* SIGTERM it sends to a process it comes to the next camera with that
\* process dead, killed if it did not end within the wait.
C12_CleanupTerminates ==
    /\ (main.pc = "cleanup") ~> (main.pc = "exited")
    /\ \A i \in DOMAIN Order : \A k \in 1..MaxOpens :
          (main = MainAt("sigterm", i, k))
          ~> (main = NextCamera(i) /\ ~Alive(Order[i], k))
    /\ [](main.pc \in {"cleanup", "sigterm", "wait", "kill"} => ENABLED cleanup)

\* cleanup has returned after it killed the process of the first camera,
\* which ran on after SIGTERM, and found the second camera's process ended
C12_Witness ==
    /\ main.pc = "finished"
    /\ procs["cam0"] = <<"kill">>
    /\ procs["cam1"] = <<"exit">>

----------------------------------------------------------------------------
\* C13: when parse_mediamtx_config raises or leaves CAMERAS empty, the
\* process ends in failure and stays there: no capture thread is ever
\* started, no ffmpeg is spawned and no request is accepted; the threads are
\* started only with the full camera set.
C13_StartupAborts ==
    /\ [][(main.pc = "parse" /\ main'.pc # "parse")
          => /\ DOMAIN CAMERAS' # Configured => main'.pc = "failed"
             /\ main'.pc # "failed" => main' = MainAt("threads", 1, None)]_vars
    /\ [](main.pc = "failed"
          => /\ \A c \in Workers : wpc[c] = "unstarted" /\ procs[c] = <<>>
             /\ \A r \in Requests : req[r] = IdleRequest)
    /\ [][main.pc = "failed" => main' = main]_vars
    /\ []((\E c \in Workers : wpc[c] # "unstarted")
          => DOMAIN CAMERAS = Configured)

\* the process has failed on a configuration whose loop raised after it
\* had accepted the first camera
C13_Witness ==
    /\ main.pc = "failed"
    /\ DOMAIN CAMERAS = {"cam0"}
    /\ \A c \in Workers : wpc[c] = "unstarted"

----------------------------------------------------------------------------
\* C14: a request never reads the entry of a camera while its capture
\* thread is between the assignment of the new frame and the invalidation
\* of the cache, with the cache holding the encoding of another frame: the
\* two assignments of a publish are one step to every reader.
C14_PublishIsAtomic ==
    [][\A r \in Requests :
          (/\ req'[r] # req[r]
           /\ req[r].pc # "encode"
           /\ req'[r].name \in DOMAIN CAMERAS)
          => LET cam == CAMERAS[req'[r].name]
             IN  ~(/\ wpc[req'[r].name] = "clear"
                   /\ Truthy(cam.latest_jpeg)
                   /\ cam.latest_jpeg # Encode(cam.latest_frame))]_vars

----------------------------------------------------------------------------
\* C15: a capture thread that leaves the demux loop, by an exception or by
\* the end of the stream, is next inside time.sleep(5): no step takes it
\* from streaming straight to the next connection attempt.
C15_BackoffAfterStreaming ==
    [][\A c \in Workers :
          (Streaming(c) /\ wpc'[c] \notin {"demux", "clear"})
          => wpc'[c] = "backoff"]_vars

----------------------------------------------------------------------------
\* C16: at every moment at most one ffmpeg process of a camera is alive:
\* when a capture thread spawns a process, every process it spawned before
\* for that camera has ended.
C16_OnePipelinePerCamera ==
    \A c \in Workers : Cardinality(AliveProcs(c)) <= 1

----------------------------------------------------------------------------
\* C17: from the start of the shutdown onwards no capture thread spawns a
\* process, opens a container or publishes a frame.
C17_WorkersStopAtShutdown ==
    [][ShuttingDown
       => \A c \in Workers :
             /\ Len(procs'[c]) = Len(procs[c])
             /\ CAMERAS'[c].container = CAMERAS[c].container
             /\ CAMERAS'[c].latest_frame = CAMERAS[c].latest_frame]_vars

----------------------------------------------------------------------------
\* C18: for a camera with a recorded process cleanup sends SIGTERM, then
\* waits, then kills: the wait follows the SIGTERM, the kill is reached only
\* from a wait that ended with the process alive, only a process that was
\* sent SIGTERM is killed, and a process that has exited is never killed.
C18_TermWaitKill ==
    /\ [][(main.pc = "cleanup" /\ main' # main)
          => LET proc == CAMERAS[CleanupCam].process
             IN  IF Truthy(proc)
                 THEN main' = MainAt("sigterm", main.i, proc)
                 ELSE main'.pc \in {"cleanup", "finished"}]_vars
    /\ [][(main'.pc = "wait" /\ main.pc # "wait")
          => (main.pc = "sigterm" /\ main'.proc = main.proc)]_vars
    /\ [][(main'.pc = "kill" /\ main.pc # "kill")
          => /\ main.pc = "wait" /\ main'.proc = main.proc
             /\ procs[CleanupCam][main.proc] = "term"]_vars
    /\ [][\A c \in Workers : \A k \in DOMAIN procs[c] :
            /\ (procs'[c][k] = "kill" /\ procs[c][k] # "kill")
               => /\ procs[c][k] = "term"
                  /\ main = MainAt("kill", main.i, k) /\ CleanupCam = c
            /\ procs[c][k] = "exit" => procs'[c][k] = "exit"]_vars

\* cleanup has killed the process of the first camera, which ran on after
\* SIGTERM, and is inside the wait for the second camera's process, which
\* has exited
C18_Witness ==
    /\ main = MainAt("wait", 2, 1)
    /\ procs["cam0"] = <<"kill">>
    /\ procs["cam1"] = <<"exit">>

----------------------------------------------------------------------------
\* C19: the latest frame of a camera is assigned only by a step of that
\* camera's capture thread inside its demux loop, each time with a later
\* frame; one thread is started per camera, once; a step of a request or of
\* the main thread after parsing leaves every camera's latest frame,
\* process, container and source as they were, and a step of a request
\* changes at most the cached JPEG of its own camera.
C19_SingleWriter ==
    /\ [][\A c \in DOMAIN CAMERAS \cap DOMAIN CAMERAS' :
            CAMERAS'[c].latest_frame # CAMERAS[c].latest_frame
            => /\ wpc[c] = "demux" /\ wpc'[c] = "clear"
               /\ \A b \in Workers \ {c} : wpc'[b] = wpc[b]
               /\ req' = req /\ main' = main
               /\ CAMERAS'[c].latest_frame > CAMERAS[c].latest_frame]_vars
    /\ [][\A c \in Workers :
            (wpc[c] = "unstarted" /\ wpc'[c] # "unstarted")
            => /\ main.pc = "threads" /\ Order[main.i] = c
               /\ wpc'[c] = "connect"
               /\ main' # main]_vars
    /\ [][(main.pc = "threads" /\ main' # main)
          => wpc[Order[main.i]] = "unstarted"]_vars
    /\ [][((req' # req \/ main' # main) /\ main.pc # "parse")
          => \A c \in DOMAIN CAMERAS :
                /\ CAMERAS'[c].latest_frame = CAMERAS[c].latest_frame
                /\ CAMERAS'[c].process = CAMERAS[c].process
                /\ CAMERAS'[c].container = CAMERAS[c].container
                /\ CAMERAS'[c].source = CAMERAS[c].source
                /\ CAMERAS'[c] # CAMERAS[c]
                   => /\ main' = main
                      /\ \E r \in Requests :
                            /\ req'[r] # req[r]
                            /\ req'[r].name = c /\ req'[r].status = 200]_vars

\* cleanup has run to its end after cam0 published its second frame and a
\* request for cam0 was answered 200 from the encoding it stored
C19_Witness ==
    /\ main.pc = "finished"
    /\ CAMERAS["cam0"].latest_frame = 2
    /\ CAMERAS["cam0"].latest_jpeg = Encode(2)
    /\ Answered(1) /\ req[1].name = "cam0" /\ req[1].status = 200
    /\ procs["cam0"] = <<"kill">>

----------------------------------------------------------------------------
\* C20: a request that found the cache empty and whose encoding succeeds
\* answers 200 with the encoding of the frame it read and leaves that
\* encoding in the cache, whatever the other requests do meanwhile; so of
\* several requests that read the same frame and found the cache empty, each
\* answers 200 with the same bytes as those that answered before it, and
\* when the last of them answers the cache holds these bytes.  A request
\* that still has to encode is never held up by another one.
C20_ConcurrentEncodesAgree ==
    /\ [][\A r \in Requests :
            (Answers(r) /\ req[r].pc = "encode" /\ req'[r].status # 500)
            => /\ req'[r].status = 200
               /\ req'[r].body = Encode(req[r].frame)
               /\ CAMERAS'[req[r].name].latest_jpeg = req'[r].body
               /\ \A q \in Requests \ {r} :
                     (/\ Answered(q) /\ req[q].status = 200
                      /\ req[q].name = req[r].name
                      /\ FrameOf(req[q].body) = req[r].frame)
                     => req'[r].body = req[q].body]_vars
    /\ [](\A r \in Requests : req[r].pc = "encode" => ENABLED EncodeOk(r))

\* two requests for cam0 read frame 1 and found the cache empty; one has
\* answered 200 and stored its encoding, the other is still encoding, and
\* no frame was published meanwhile
C20_Witness ==
    /\ req[1].pc = "encode" /\ req[1].name = "cam0" /\ req[1].frame = 1
    /\ Answered(2) /\ req[2].name = "cam0" /\ req[2].status = 200
    /\ req[2].body = Encode(1)
    /\ CAMERAS["cam0"].latest_frame = 1
    /\ CAMERAS["cam0"].latest_jpeg = Encode(1)
    /\ wpc["cam0"] = "demux"

----------------------------------------------------------------------------
\* C21: the body of every 200 answer is the non-empty buffer that one call
\* of the encoder returned, also when the capture thread clears the cache
\* between the test of line 124 and the second read of line 125.
C21_OkBodyIsAnEncoding ==
    \A r \in Requests :
        (Answered(r) /\ req[r].status = 200) => IsJpeg(req[r].body)

----------------------------------------------------------------------------
\* C22: no step of a capture thread, of a request or of the main thread
\* after parsing takes a frame away from a camera that has one; a request is
\* answered 503 only for a camera that has no frame at that moment, so never
\* for a camera that has published; and a request that arrives for a camera
\* with a frame goes on with that frame also while the camera's capture
\* thread is not connected.
C22_FrameIsNeverReset ==
    /\ [][\A c \in DOMAIN CAMERAS \cap DOMAIN CAMERAS' :
            Truthy(CAMERAS[c].latest_frame)
            => Truthy(CAMERAS'[c].latest_frame)]_vars
    /\ [][\A r \in Requests :
            (req'[r] # req[r] /\ req'[r].status = 503)
            => /\ ~InFlight(r)
               /\ req'[r].name \in DOMAIN CAMERAS
               /\ ~Truthy(CAMERAS[req'[r].name].latest_frame)]_vars
    /\ [][\A r \in Requests :
            (/\ ~InFlight(r) /\ req'[r] # req[r] /\ main' = main
             /\ req'[r].name \in DOMAIN CAMERAS
             /\ Truthy(CAMERAS[req'[r].name].latest_frame))
            => /\ req'[r].pc = "check_jpeg"
               /\ req'[r].frame = CAMERAS[req'[r].name].latest_frame]_vars
    /\ [](\A r \in Requests :
            (InFlight(r) /\ ProcessUp) => ENABLED Progress(r))

\* cam0 published a frame, its ffmpeg has exited and its thread is about to
\* connect again; a request that ran entirely while cam0 was disconnected
\* was answered 200 with the encoding of that frame
C22_Witness ==
    /\ Answered(1) /\ obs[1]
    /\ req[1].name = "cam0" /\ req[1].status = 200
    /\ req[1].body = Encode(1)
    /\ CAMERAS["cam0"].latest_frame = 1
    /\ wpc["cam0"] = "connect"
    /\ procs["cam0"] = <<"exit">>

====
